---- MODULE Spec2Model ----
(***************************************************************************)
(* The WhatsApp gateway of src/src/index.js as a state machine.            *)
(*                                                                         *)
(* Node runs the program on one thread: a handler runs without             *)
(* interruption until it returns or reaches an `await`.  Every action      *)
(* below is one such uninterrupted run: the start of a handler up to its   *)
(* first await, or the resumption of a suspended handler up to its next    *)
(* await or its end.  Suspended handlers are kept in connTasks, qrTasks,   *)
(* dcTasks and reqs; the order in which they resume is not fixed.          *)
(*                                                                         *)
(* The session client (Baileys), the credential directory and the QR       *)
(* renderer are the environment.  A client emits connection.update and     *)
(* creds.update events while it is alive and nothing after its close       *)
(* event.  A client constructed without credentials emits QR payloads      *)
(* until it is paired, and is then closed by the server; only a client     *)
(* constructed with the credentials of an account opens, at most once.     *)
(***************************************************************************)
EXTENDS Integers, Sequences, FiniteSets, Bags

\* ------------------------------------------------------------------ bounds
MaxClients == 2     \* session clients constructed in one run; later loads fail
MaxPending == 2     \* handlers suspended at an await at the same time
MaxItems   == 2     \* messages submitted in one run, over all requests
MaxLen     == 4     \* characters of a phone given to the normalization

\* --------------------------------------------------------------- constants
Null             == 0      \* JavaScript null / undefined
Unknown          == -1     \* the string 'desconhecido'
loggedOut        == 401    \* DisconnectReason.loggedOut
restartRequired  == 515    \* DisconnectReason.restartRequired
connectionClosed == 428    \* DisconnectReason.connectionClosed
timedOut         == 408    \* DisconnectReason.timedOut, one of the other codes
BatchLimit       == 50     \* messages.length > 50 is rejected

StatusCodes == {loggedOut, restartRequired, connectionClosed, timedOut}
QrVals      == {1}      \* QR payloads
Phones      == {1}      \* the accounts a client can be paired with

\* lastError values: null, or a message
NoError           == [msg |-> "null", code |-> 0]
SessionEndedError == [msg |-> "Sessao encerrada. Escaneie o QR Code novamente.", code |-> 0]
DisconnectedError(statusCode) == [msg |-> "Desconectado (codigo). Reconectando...", code |-> statusCode]
ConnectError      == [msg |-> "err.message", code |-> 0]

\* QRCode.toDataURL(qr): the data URI of the image of payload qr
ToDataURL(qr) == [png |-> qr]
NoImage       == [png |-> Null]

VARIABLES
  sock,               \* the global session client: Null or a client number
  qrCode,             \* NoImage or the rendered image
  qrCodeRaw,          \* Null or the QR text
  connectionStatus,   \* "disconnected", "connecting", "connected"
  connectedPhone,     \* Null, Unknown or a phone
  messagesSent,
  lastError,
  authDir,            \* AUTH_DIR on disk: [exists, me]; me = Null: no credentials
  clients,            \* the session clients constructed so far, in order:
                      \* [state, user], state "pairing" (constructed without
                      \* credentials), "login" (with credentials), "open",
                      \* "closed"; user is its account (sock.user) or Null
  connTasks,          \* connectWhatsApp calls suspended at useMultiFileAuthState
  loads,              \* those of them whose load has reached the disk already:
                      \* a bag of the credentials (creds.me) each one has read
  qrTasks,            \* connection.update handlers suspended at QRCode.toDataURL:
                      \* a bag of [update, client], the update and its emitter
  dcTasks,            \* /disconnect handlers suspended at sock.logout()
  timers,             \* pending setTimeout(connectWhatsApp, ...)
  reqs,               \* /send and /send-batch handlers in flight
  nItems,             \* number of messages submitted so far
  delivered,          \* number of sock.sendMessage calls that resolved
  started,            \* the app.listen callback has run
  crashed,            \* the process died of an unhandled rejection
  op                  \* the last step taken, with its inputs and its response

session == <<sock, qrCode, qrCodeRaw, connectionStatus, connectedPhone, lastError>>
tasks   == <<connTasks, loads, qrTasks, dcTasks, timers>>
sends   == <<messagesSent, reqs, nItems, delivered>>
vars    == <<sock, qrCode, qrCodeRaw, connectionStatus, connectedPhone, messagesSent,
             lastError, authDir, clients, connTasks, loads, qrTasks, dcTasks, timers, reqs,
             nItems, delivered, started, crashed, op>>

Pending == connTasks + BagCardinality(qrTasks) + dcTasks + Cardinality(reqs)
Running == started /\ ~crashed
Alive   == {c \in 1..Len(clients) : clients[c].state # "closed"}

\* AUTH_DIR after a fs.rmSync(AUTH_DIR, {recursive: true, force: true}) that
\* returned
RmSync == [exists |-> FALSE, me |-> Null]

\* try { fs.rmSync(AUTH_DIR, {recursive: true, force: true}) } catch (e) {}
\* (lines 90-92, 227-230, 250-252) on the store a: the directory is removed;
\* or rmSync throws, having removed nothing or the credentials only, and the
\* catch swallows the error.  A missing directory is no error (force).
TryRmSync(a) == IF a.exists THEN {RmSync, a, [a EXCEPT !.me = Null]} ELSE {RmSync}

Init ==
  /\ sock = Null
  /\ qrCode = NoImage
  /\ qrCodeRaw = Null
  /\ connectionStatus = "disconnected"
  /\ connectedPhone = Null
  /\ messagesSent = 0
  /\ lastError = NoError
  /\ authDir \in {RmSync} \cup [exists : {TRUE}, me : {Null} \cup Phones]
  /\ clients = <<>>
  /\ connTasks = 0
  /\ loads = EmptyBag
  /\ qrTasks = EmptyBag
  /\ dcTasks = 0
  /\ timers = 0
  /\ reqs = {}
  /\ nItems = 0
  /\ delivered = 0
  /\ started = FALSE
  /\ crashed = FALSE
  /\ op = [name |-> "init"]

\* ------------------------------------------------------ connectWhatsApp
\* Faulty variant of ConnectWhatsApp: the guard of line 36 is missing.
ConnectWhatsAppNoGuard ==
  /\ connectionStatus' = "connecting"
  /\ qrCode' = NoImage
  /\ qrCodeRaw' = Null
  /\ lastError' = NoError
  /\ connTasks' = connTasks + 1
  /\ UNCHANGED <<sock, connectedPhone>>

\* connectWhatsApp up to its await (lines 36-47)
ConnectWhatsApp ==
  IF connectionStatus = "connecting"
  THEN UNCHANGED <<session, connTasks>>
  ELSE /\ connectionStatus' = "connecting"
       /\ qrCode' = NoImage
       /\ qrCodeRaw' = Null
       /\ lastError' = NoError
       /\ connTasks' = connTasks + 1
       /\ UNCHANGED <<sock, connectedPhone>>

\* a call of connectWhatsApp may suspend one more handler
CanConnect == connectionStatus = "connecting" \/ Pending < MaxPending

\* app.listen callback (lines 305-316)
Start ==
  /\ ~started
  /\ started' = TRUE
  /\ IF authDir.exists THEN ConnectWhatsApp ELSE UNCHANGED <<session, connTasks>>
  /\ op' = [name |-> "Start", connect |-> authDir.exists, from |-> connectionStatus]
  /\ UNCHANGED <<sends, authDir, clients, loads, qrTasks, dcTasks, timers, crashed>>

\* POST /connect (lines 220-235)
PostConnect(reset) ==
  /\ Running
  /\ connectionStatus = "connected" \/ CanConnect
  /\ IF connectionStatus = "connected"
     THEN /\ UNCHANGED <<session, connTasks, authDir>>
          /\ op' = [name |-> "PostConnect", connect |-> FALSE, from |-> connectionStatus]
     ELSE /\ authDir' \in IF reset THEN TryRmSync(authDir) ELSE {authDir}
          /\ ConnectWhatsApp
          /\ op' = [name |-> "PostConnect", connect |-> TRUE, from |-> connectionStatus]
  /\ UNCHANGED <<sends, clients, loads, qrTasks, dcTasks, timers, started, crashed>>

\* a reconnect timer fires (lines 96, 100)
TimerFire ==
  /\ Running
  /\ timers > 0
  /\ CanConnect
  /\ timers' = timers - 1
  /\ ConnectWhatsApp
  /\ op' = [name |-> "TimerFire", connect |-> TRUE, from |-> connectionStatus,
            afterDisconnect |-> (op.name = "PostDisconnect" /\ op.done)]
  /\ UNCHANGED <<sends, authDir, clients, loads, qrTasks, dcTasks, started, crashed>>

\* The load of a suspended connectWhatsApp reaches the disk: it creates
\* AUTH_DIR when it is missing and reads the credentials stored there.  This
\* happens at some time between the call of useMultiFileAuthState (line 47)
\* and its resolution.
LoadRead ==
  /\ Running
  /\ BagCardinality(loads) < connTasks
  /\ loads' = loads (+) SetToBag({authDir.me})
  /\ authDir' = [authDir EXCEPT !.exists = TRUE]
  /\ op' = [name |-> "LoadRead"]
  /\ UNCHANGED <<session, sends, clients, connTasks, qrTasks, dcTasks, timers,
                 started, crashed>>

\* the ways connectWhatsApp goes on after its await: the load resolved and
\* makeWASocket returned ("ok"), the load threw ("load"), or the load
\* resolved and makeWASocket threw ("make")
ConnectOutcomes == {"ok", "load", "make"}

\* The load that settles: one that had reached the disk earlier and read the
\* credentials me then (early), or one that reaches it only now and reads
\* what AUTH_DIR holds; a load that throws has read nothing.
LoadSettles(r, early, me) ==
  /\ connTasks > 0
  /\ IF early THEN BagIn(me, loads) /\ r # "load"
              ELSE BagCardinality(loads) < connTasks /\ me = authDir.me
  /\ connTasks' = connTasks - 1
  /\ loads' = IF early THEN loads (-) SetToBag({me}) ELSE loads
  /\ authDir' = IF early \/ r = "load" THEN authDir
                                       ELSE [authDir EXCEPT !.exists = TRUE]

\* Faulty variant of ConnectResume: there is no catch, a failure leaves the
\* state as it is.
ConnectResumeNoCatch(r, early, me) ==
  /\ Running
  /\ r = "ok" => Len(clients) < MaxClients
  /\ LoadSettles(r, early, me)
  /\ IF r = "ok"
     THEN /\ clients' = Append(clients,
                             [state |-> IF me = Null THEN "pairing" ELSE "login",
                              user |-> me])
          /\ sock' = Len(clients) + 1
          /\ UNCHANGED <<connectionStatus, lastError>>
     ELSE UNCHANGED <<connectionStatus, lastError, sock, clients>>
  /\ op' = [name |-> "ConnectResume", ok |-> (r = "ok")]
  /\ UNCHANGED <<qrCode, qrCodeRaw, connectedPhone, sends, qrTasks, dcTasks, timers,
                 started, crashed>>

\* connectWhatsApp resumes after useMultiFileAuthState (lines 47-65), or its
\* catch runs because the load or makeWASocket threw (lines 117-121)
ConnectResume(r, early, me) ==
  /\ Running
  /\ r = "ok" => Len(clients) < MaxClients
  /\ LoadSettles(r, early, me)
  /\ IF r = "ok"
     THEN /\ clients' = Append(clients,
                             [state |-> IF me = Null THEN "pairing" ELSE "login",
                              user |-> me])
          /\ sock' = Len(clients) + 1
          /\ UNCHANGED <<connectionStatus, lastError>>
     ELSE /\ connectionStatus' = "disconnected"
          /\ lastError' = ConnectError
          /\ UNCHANGED <<sock, clients>>
  /\ op' = [name |-> "ConnectResume", ok |-> (r = "ok")]
  /\ UNCHANGED <<qrCode, qrCodeRaw, connectedPhone, sends, qrTasks, dcTasks, timers,
                 started, crashed>>

\* ------------------------------------------- connection.update handler
\* the shapes of update the client emits: {qr}, {connection: 'open'},
\* {connection: 'close', lastDisconnect}
QrUpdate(q)       == [connection |-> "none", statusCode |-> Null, qr |-> q]
OpenUpdate        == [connection |-> "open", statusCode |-> Null, qr |-> Null]
CloseUpdate(code) == [connection |-> "close", statusCode |-> code, qr |-> Null]

\* me?.id?.split(':')[0] || me?.id?.split('@')[0] || 'desconhecido' (line 112)
PhoneOf(user) == IF user = Null THEN Unknown ELSE user

\* Faulty variant of OnClose: restartRequired schedules no reconnection.
OnCloseNoRestart(statusCode) ==
  /\ connectionStatus' = "disconnected"
  /\ connectedPhone' = Null
  /\ IF statusCode = loggedOut
     THEN /\ authDir' \in TryRmSync(authDir)
          /\ lastError' = SessionEndedError
          /\ UNCHANGED timers
     ELSE IF statusCode # connectionClosed /\ statusCode # restartRequired
     THEN /\ lastError' = DisconnectedError(statusCode)
          /\ timers' = timers + 1
          /\ UNCHANGED authDir
     ELSE UNCHANGED <<authDir, lastError, timers>>
  /\ UNCHANGED <<sock, crashed>>

\* the close branch (lines 78-102)
OnClose(statusCode) ==
  /\ connectionStatus' = "disconnected"
  /\ connectedPhone' = Null
  /\ IF statusCode = loggedOut
     THEN /\ authDir' \in TryRmSync(authDir)
          /\ lastError' = SessionEndedError
          /\ UNCHANGED timers
     ELSE IF statusCode = restartRequired
     THEN /\ timers' = timers + 1
          /\ UNCHANGED <<authDir, lastError>>
     ELSE IF statusCode # connectionClosed
     THEN /\ lastError' = DisconnectedError(statusCode)
          /\ timers' = timers + 1
          /\ UNCHANGED authDir
     ELSE UNCHANGED <<authDir, lastError, timers>>
  /\ UNCHANGED <<sock, crashed>>

\* the open branch (lines 104-114); sock.user with sock = null throws a
\* TypeError out of the async handler: an unhandled rejection, which ends
\* the process under node 20 (src/unnamed/part_000 line 1)
OnOpen ==
  /\ connectionStatus' = "connected"
  /\ lastError' = NoError
  /\ IF sock = Null
     THEN /\ crashed' = TRUE
          /\ UNCHANGED connectedPhone
     ELSE /\ connectedPhone' = PhoneOf(clients[sock].user)
          /\ UNCHANGED crashed
  /\ UNCHANGED <<sock, authDir, timers>>

\* the handler from line 78 to its end, entered with qrCode = img
HandlerTail(u, img) ==
  /\ IF u.connection = "close" THEN OnClose(u.statusCode) /\ qrCode' = img /\ UNCHANGED qrCodeRaw
     ELSE IF u.connection = "open" THEN OnOpen /\ qrCode' = NoImage /\ qrCodeRaw' = Null
     ELSE /\ qrCode' = img
          /\ UNCHANGED <<qrCodeRaw, connectionStatus, connectedPhone, lastError, sock,
                         authDir, timers, crashed>>

\* client c emits update u and the handler runs up to its first await or its
\* end (lines 65-115)
ConnectionUpdate(c, u) ==
  /\ Running
  /\ c \in Alive
  /\ clients' = [clients EXCEPT ![c].state = IF u.connection = "close" THEN "closed"
                                               ELSE IF u.connection = "open" THEN "open"
                                               ELSE @]
  /\ IF u.qr # Null
     THEN /\ Pending < MaxPending
          /\ qrCodeRaw' = u.qr
          /\ qrTasks' = qrTasks (+) SetToBag({[update |-> u, client |-> c]})
          /\ UNCHANGED <<qrCode, connectionStatus, connectedPhone, lastError, sock,
                         authDir, timers, crashed>>
     ELSE /\ HandlerTail(u, qrCode)
          /\ UNCHANGED qrTasks
  /\ op' = [name |-> "ConnectionUpdate", connection |-> u.connection,
            statusCode |-> u.statusCode,
            client |-> IF u.connection = "open" THEN c ELSE Null,
            from |-> connectionStatus]
  /\ UNCHANGED <<sends, connTasks, loads, dcTasks, started>>

\* what a client emits, and when
EmitQr(c, q) ==
  /\ c \in Alive
  /\ clients[c].state = "pairing" /\ clients[c].user = Null
  /\ ConnectionUpdate(c, QrUpdate(q))

EmitOpen(c) ==
  /\ c \in Alive
  /\ clients[c].state = "login"
  /\ ConnectionUpdate(c, OpenUpdate)

EmitClose(c, code) == ConnectionUpdate(c, CloseUpdate(code))

\* the handler resumes after QRCode.toDataURL (lines 72-76, then 78-114)
QrResume(t, ok) ==
  /\ Running
  /\ BagIn(t, qrTasks)
  /\ qrTasks' = qrTasks (-) SetToBag({t})
  /\ HandlerTail(t.update, IF ok THEN ToDataURL(t.update.qr) ELSE qrCode)
  /\ op' = [name |-> "QrResume", ok |-> ok]
  /\ UNCHANGED <<sends, clients, connTasks, loads, dcTasks, started>>

\* creds.update -> saveCreds (line 62): client c stores its credentials;
\* a client without an account is paired with phone p first.  saveCreds
\* writes a file in AUTH_DIR: when the directory has been removed the write
\* fails, and the rejection of saveCreds, which nothing handles, ends the
\* process
CredsUpdate(c, p) ==
  /\ Running
  /\ c \in Alive
  /\ clients[c].user \in {Null, p}
  /\ clients' = [clients EXCEPT ![c].user = p]
  /\ authDir' = IF authDir.exists THEN [authDir EXCEPT !.me = p] ELSE authDir
  /\ crashed' = ~authDir.exists
  /\ op' = [name |-> "CredsUpdate"]
  /\ UNCHANGED <<session, sends, tasks, started>>

\* ------------------------------------------------------ POST /disconnect
\* lines 243-254, after the logout when there was one
DisconnectTail ==
  /\ sock' = Null
  /\ connectionStatus' = "disconnected"
  /\ connectedPhone' = Null
  /\ qrCode' = NoImage
  /\ authDir' \in TryRmSync(authDir)
  /\ UNCHANGED <<qrCodeRaw, lastError>>

\* Faulty variant of PostDisconnect: the pending reconnect timers are cleared.
PostDisconnectClearsTimers ==
  /\ Running
  /\ IF sock # Null
     THEN /\ Pending < MaxPending
          /\ dcTasks' = dcTasks + 1
          /\ UNCHANGED <<session, authDir>>
          /\ op' = [name |-> "PostDisconnect", done |-> FALSE]
     ELSE /\ DisconnectTail
          /\ UNCHANGED dcTasks
          /\ op' = [name |-> "PostDisconnect", done |-> TRUE]
  /\ timers' = 0
  /\ UNCHANGED <<sends, clients, connTasks, loads, qrTasks, started, crashed>>

\* POST /disconnect up to await sock.logout(), or to its end when sock is null
PostDisconnect ==
  /\ Running
  /\ IF sock # Null
     THEN /\ Pending < MaxPending
          /\ dcTasks' = dcTasks + 1
          /\ UNCHANGED <<session, authDir>>
          /\ op' = [name |-> "PostDisconnect", done |-> FALSE]
     ELSE /\ DisconnectTail
          /\ UNCHANGED dcTasks
          /\ op' = [name |-> "PostDisconnect", done |-> TRUE]
  /\ UNCHANGED <<sends, clients, connTasks, loads, qrTasks, timers, started, crashed>>

\* POST /disconnect resumes after sock.logout() resolved or threw
DisconnectResume ==
  /\ Running
  /\ dcTasks > 0
  /\ dcTasks' = dcTasks - 1
  /\ DisconnectTail
  /\ op' = [name |-> "PostDisconnect", done |-> TRUE]
  /\ UNCHANGED <<sends, clients, connTasks, loads, qrTasks, timers, started, crashed>>

\* ------------------------------------------------------------- the reads
\* GET /health (lines 177-185)
HealthResponse == [whatsapp |-> connectionStatus, phone |-> connectedPhone,
                   messagesSent |-> messagesSent]

\* GET /status (lines 188-197)
StatusResponse == [status |-> connectionStatus, phone |-> connectedPhone,
                   messagesSent |-> messagesSent, lastError |-> lastError,
                   hasQrCode |-> (qrCode # NoImage)]

\* GET /qr (lines 200-217)
QrResponse(format) ==
  IF connectionStatus = "connected"
  THEN [status |-> "connected", phone |-> connectedPhone]
  ELSE IF qrCode = NoImage
  THEN [status |-> "waiting"]
  ELSE IF format = "image"
  THEN [status |-> "image/png", buffer |-> qrCode.png]
  ELSE [status |-> "qr_ready", qrCode |-> qrCode, qrCodeRaw |-> qrCodeRaw]

GetHealth ==
  /\ Running
  /\ HealthResponse.whatsapp \in {"disconnected", "connecting", "connected"}
  /\ UNCHANGED vars

GetStatus ==
  /\ Running
  /\ StatusResponse.status \in {"disconnected", "connecting", "connected"}
  /\ UNCHANGED vars

GetQr(format) ==
  /\ Running
  /\ QrResponse(format).status \in {"connected", "waiting", "image/png", "qr_ready"}
  /\ UNCHANGED vars

\* --------------------------------------------------- phone normalization
\* A string is a sequence of characters; the digits are themselves, and the
\* characters above 9 are not digits: 10 is a separator of a written phone
\* ('+', '-', ' ', '('), 11 is '@' and 12 stands for the letters and dots
\* of 's.whatsapp.net'.
PhoneChars  == {0, 1, 5, 10}
PhoneInputs == UNION {[1..n -> PhoneChars] : n \in 0..MaxLen}
JidSuffix   == <<11, 12>>

IsDigit(c) == c \in 0..9

\* phone.replace(/\D/g, '') (line 133)
StripNonDigits(phone) == SelectSeq(phone, IsDigit)

\* if (number.startsWith('0')) number = number.substring(1) (line 136)
DropLeadingZero(number) ==
  IF Len(number) > 0 /\ number[1] = 0 THEN Tail(number) ELSE number

\* number.startsWith('55')
StartsWith55(number) == Len(number) >= 2 /\ number[1] = 5 /\ number[2] = 5

\* Faulty variant of AddCountry: '55' is prepended to every number.
AddCountryAlways(number) == <<5, 5>> \o number

\* if (!number.startsWith('55')) number = '55' + number (line 139)
AddCountry(number) == IF StartsWith55(number) THEN number ELSE <<5, 5>> \o number

\* lines 133-139
NormalizeNumber(phone) == AddCountry(DropLeadingZero(StripNonDigits(phone)))

\* const jid = number + '@s.whatsapp.net' (line 142)
Jid(phone) == NormalizeNumber(phone) \o JidSuffix

\* the normalization of sendMessage applied to phone (lines 132-142)
Normalize(phone) ==
  /\ op' = [name |-> "Normalize", phone |-> phone, number |-> NormalizeNumber(phone),
            jid |-> Jid(phone)]
  /\ UNCHANGED <<session, sends, authDir, clients, tasks, started, crashed>>

\* ------------------------------------------------------------ sendMessage
\* The messages of a request are told apart by their phones: item k of a
\* batch is for phone k, or is the JSON value null, which the checks of
\* /send-batch let through.
\* A request in flight: kind "send" or "batch", the phones msgs of its items,
\* the index i of the item being sent, the results pushed so far, the await
\* it is suspended at (pc), and the client the awaited call was made on.
BatchInputs ==
  UNION {{msgs \in [1..n -> {Null} \cup (1..n)] : \A k \in 1..n : msgs[k] \in {Null, k}}
           : n \in 0..MaxItems}

\* Faulty variant of NotConnected: connectionStatus is not tested.
NotConnectedSockOnly == sock = Null

\* the guard of sendMessage (line 128)
NotConnected == sock = Null \/ connectionStatus # "connected"

Success(phone) == [phone |-> phone, success |-> TRUE]
Failure(phone) == [phone |-> phone, success |-> FALSE]

\* sendMessage(msg.phone, ...) is called for item i of request t (lines
\* 128-146): it throws at once, or suspends at sock.onWhatsApp.  When the
\* item of a batch is null, msg.phone throws at line 288 and again in the
\* catch at line 291: the handler rejects without a result; the process
\* ends unless the framework handles the rejection of a handler, which
\* depends on the version of express installed
StartItem(t, i) ==
  IF t.kind = "batch" /\ t.msgs[i] = Null
  THEN /\ reqs' = reqs \ {t}
       /\ crashed' \in BOOLEAN
       /\ op' = [name |-> "BatchThrown", input |-> t.msgs]
  ELSE IF NotConnected
  THEN /\ UNCHANGED crashed
       /\ IF t.kind = "send"
          THEN /\ reqs' = reqs \ {t}
               /\ op' = [name |-> "SendDone", response |-> Failure(t.msgs[i]),
                         rejected |-> TRUE]
          ELSE /\ reqs' = (reqs \ {t}) \cup
                          {[t EXCEPT !.i = i, !.results = Append(@, Failure(t.msgs[i])),
                                     !.pc = "delay"]}
               /\ op' = [name |-> "ItemDone", response |-> Failure(t.msgs[i]),
                         rejected |-> TRUE]
  ELSE /\ UNCHANGED crashed
       /\ reqs' = (reqs \ {t}) \cup {[t EXCEPT !.i = i, !.pc = "lookup", !.on = sock]}
       /\ op' = [name |-> "Lookup", on |-> sock]

\* Faulty variant of EndItem: after an item that threw, /send-batch goes on
\* to the lookup of the next item without the delay.
EndItemNoDelayAfterFailure(t, ok) ==
  LET r == IF ok THEN Success(t.msgs[t.i]) ELSE Failure(t.msgs[t.i])
      next == ~ok /\ t.i < Len(t.msgs)
  IN
  IF t.kind = "send"
  THEN /\ reqs' = reqs \ {t}
       /\ op' = [name |-> "SendDone", response |-> r, rejected |-> FALSE]
  ELSE /\ reqs' = (reqs \ {t}) \cup
                  {[t EXCEPT !.results = Append(@, r),
                             !.i = IF next THEN @ + 1 ELSE @,
                             !.pc = IF next THEN "lookup" ELSE "delay"]}
       /\ op' = [name |-> "ItemDone", response |-> r, rejected |-> FALSE]

\* sendMessage of item t.i ends: it returned (ok) or threw (lines 152-158),
\* and its caller records the outcome (lines 266-270, 288-292)
EndItem(t, ok) ==
  LET r == IF ok THEN Success(t.msgs[t.i]) ELSE Failure(t.msgs[t.i]) IN
  IF t.kind = "send"
  THEN /\ reqs' = reqs \ {t}
       /\ op' = [name |-> "SendDone", response |-> r, rejected |-> FALSE]
  ELSE /\ reqs' = (reqs \ {t}) \cup {[t EXCEPT !.results = Append(@, r), !.pc = "delay"]}
       /\ op' = [name |-> "ItemDone", response |-> r, rejected |-> FALSE]

NewRequest(kind, msgs) ==
  [id |-> nItems + 1, kind |-> kind, msgs |-> msgs, i |-> 1, results |-> <<>>,
   pc |-> "start", on |-> Null]

\* POST /send (lines 258-271); phone = Null: the field is missing
PostSend(phone) ==
  /\ Running
  /\ nItems < MaxItems
  /\ Pending < MaxPending
  /\ IF phone = Null
     THEN /\ op' = [name |-> "PostSend", response |-> 400]
          /\ UNCHANGED <<reqs, nItems, crashed>>
     ELSE /\ nItems' = nItems + 1
          /\ StartItem(NewRequest("send", <<phone>>), 1)
  /\ UNCHANGED <<session, messagesSent, delivered, authDir, clients, tasks, started>>

\* POST /send-batch up to the first await (lines 274-288)
PostSendBatch(msgs) ==
  /\ Running
  /\ nItems + Len(msgs) <= MaxItems
  /\ Pending < MaxPending
  /\ IF Len(msgs) = 0 \/ Len(msgs) > BatchLimit
     THEN /\ op' = [name |-> "PostSendBatch", response |-> 400]
          /\ UNCHANGED <<reqs, nItems, crashed>>
     ELSE /\ nItems' = nItems + Len(msgs)
          /\ StartItem(NewRequest("batch", msgs), 1)
  /\ UNCHANGED <<session, messagesSent, delivered, authDir, clients, tasks, started>>

\* sendMessage resumes after sock.onWhatsApp(jid) (lines 146-151): the
\* number exists, does not exist, or the lookup threw; a lookup on a closed
\* client finds nothing.  sock.sendMessage reads the global sock again.
LookupResume(t, r) ==
  /\ Running
  /\ t \in reqs
  /\ t.pc = "lookup"
  /\ r = "exists" => t.on \in Alive
  /\ IF r = "exists" /\ sock # Null
     THEN /\ reqs' = (reqs \ {t}) \cup {[t EXCEPT !.pc = "send", !.on = sock]}
          /\ op' = [name |-> "Send", on |-> sock]
     ELSE EndItem(t, FALSE)
  /\ UNCHANGED <<session, messagesSent, nItems, delivered, authDir, clients, tasks, started, crashed>>

\* Faulty variant of SendResume: messagesSent++ also runs when the send threw.
SendResumeCountsAll(t, ok) ==
  /\ Running
  /\ t \in reqs
  /\ t.pc = "send"
  /\ ok => t.on \in Alive
  /\ messagesSent' = messagesSent + 1
  /\ delivered' = IF ok THEN delivered + 1 ELSE delivered
  /\ EndItem(t, ok)
  /\ UNCHANGED <<session, nItems, authDir, clients, tasks, started, crashed>>

\* sendMessage resumes after sock.sendMessage (lines 151-158); a send on a
\* closed client throws
SendResume(t, ok) ==
  /\ Running
  /\ t \in reqs
  /\ t.pc = "send"
  /\ ok => t.on \in Alive
  /\ messagesSent' = IF ok THEN messagesSent + 1 ELSE messagesSent
  /\ delivered' = IF ok THEN delivered + 1 ELSE delivered
  /\ EndItem(t, ok)
  /\ UNCHANGED <<session, nItems, authDir, clients, tasks, started, crashed>>

\* the response of /send-batch (lines 297-299)
BatchResponse(results) ==
  LET sent == Cardinality({k \in 1..Len(results) : results[k].success}) IN
  [total |-> Len(results), sent |-> sent, failed |-> Len(results) - sent,
   results |-> results]

\* /send-batch resumes after delay(...) (lines 294-299, 286-288): the next
\* item, or the response after the last one
DelayResume(t) ==
  /\ Running
  /\ t \in reqs
  /\ t.pc = "delay"
  /\ IF t.i < Len(t.msgs)
     THEN StartItem(t, t.i + 1)
     ELSE /\ reqs' = reqs \ {t}
          /\ op' = [name |-> "BatchDone", input |-> t.msgs,
                    response |-> BatchResponse(t.results)]
          /\ UNCHANGED crashed
  /\ UNCHANGED <<session, messagesSent, nItems, delivered, authDir, clients, tasks, started>>

\* the connection lifecycle: commands, timers, open and close events
NextLife ==
  \/ Start
  \/ \E reset \in BOOLEAN : PostConnect(reset)
  \/ TimerFire
  \/ LoadRead
  \/ \E r \in ConnectOutcomes, early \in BOOLEAN, me \in {Null} \cup Phones :
       ConnectResume(r, early, me)
  \/ \E c \in 1..MaxClients : EmitOpen(c)
  \/ \E c \in 1..MaxClients, code \in StatusCodes : EmitClose(c, code)
  \/ PostDisconnect
  \/ DisconnectResume

\* pairing: QR events, their rendering, and the credentials
NextPair ==
  \/ \E c \in 1..MaxClients, q \in QrVals : EmitQr(c, q)
  \/ \E t \in BagToSet(qrTasks), ok \in BOOLEAN : QrResume(t, ok)
  \/ \E c \in 1..MaxClients, p \in Phones : CredsUpdate(c, p)

\* the reads
NextRead ==
  \/ GetHealth
  \/ GetStatus
  \/ \E format \in {"json", "image"} : GetQr(format)

\* the messaging gateway
NextSend ==
  \/ \E phone \in {Null, 1} : PostSend(phone)
  \/ \E msgs \in BatchInputs : PostSendBatch(msgs)
  \/ \E t \in reqs, r \in {"exists", "notfound", "throws"} : LookupResume(t, r)
  \/ \E t \in reqs, ok \in BOOLEAN : SendResume(t, ok)
  \/ \E t \in reqs : DelayResume(t)

Next == NextLife \/ NextPair \/ NextRead \/ NextSend

\* the whole program
Spec == Init /\ [][Next]_vars

\* the connection supervisor: the program when no message is sent
SpecConn == Init /\ [][NextLife \/ NextPair \/ NextRead]_vars

\* the messaging gateway under every interleaving of the connection
\* lifecycle; pairing does not change what sendMessage reads (sock,
\* connectionStatus) and is left out
SpecSend == Init /\ [][NextLife \/ NextSend]_vars

\* the connection lifecycle with its scheduling: a pending timer fires
\* whatever else is going on, and an awaited load or logout settles
SpecReconnect ==
  /\ Init
  /\ [][NextLife]_vars
  /\ SF_vars(TimerFire)
  /\ WF_vars(\E r \in ConnectOutcomes, early \in BOOLEAN, me \in {Null} \cup Phones :
               ConnectResume(r, early, me))
  /\ WF_vars(DisconnectResume)

\* the normalization alone, on every phone of at most MaxLen characters
SpecNorm == Init /\ [][\E phone \in PhoneInputs : Normalize(phone)]_vars

\* ------------------------------------------------------------ properties
\* the step calls connectWhatsApp()
ConnectCalled == op'.name \in {"Start", "PostConnect", "TimerFire"} /\ op'.connect

\* C1: a connect() invoked while phase = Connecting constructs no session
\* client, starts no connection attempt and changes no state, so connect()
\* calls made while Connecting add nothing to the one attempt under way.
C1_ConnectIdempotentWhileConnecting ==
  [][(ConnectCalled /\ connectionStatus = "connecting")
       => UNCHANGED <<session, connTasks, clients, messagesSent>>]_vars

\* connect() has been called while a first connect() was suspended: the one
\* attempt is still the only one
C1_Witness ==
  /\ op.name = "PostConnect" /\ op.connect /\ op.from = "connecting"
  /\ connTasks = 1 /\ Len(clients) = 0

\* C2: right after a close event with reason logged-out is handled, phase is
\* Disconnected and the credential store is empty, whatever the phase was.
C2_LoggedOutPurges ==
  (op.name = "ConnectionUpdate" /\ op.connection = "close" /\ op.statusCode = loggedOut)
    => (connectionStatus = "disconnected" /\ authDir = RmSync)

\* C3: pendingQr (qrCode) and connectedIdentity (connectedPhone) are never
\* both set.
C3_QrAndIdentityExclusive == ~crashed => ~(qrCode # NoImage /\ connectedPhone # Null)

\* C4: pendingQr is set only while phase = Connecting.
C4_QrOnlyWhileConnecting ==
  ~crashed => (qrCode # NoImage => connectionStatus = "connecting")

\* C5: connectedIdentity is set if and only if phase = Connected.
C5_IdentityIffConnected ==
  ~crashed => (connectedPhone # Null <=> connectionStatus = "connected")

\* C6: when disconnect() completes, phase = Disconnected, the credential
\* store is empty and pendingQr (image and raw text), connectedIdentity and
\* lastError are all unset.
C6_DisconnectClearsAll ==
  (op.name = "PostDisconnect" /\ op.done)
    => /\ connectionStatus = "disconnected"
       /\ authDir = RmSync
       /\ qrCode = NoImage
       /\ qrCodeRaw = Null
       /\ connectedPhone = Null
       /\ lastError = NoError

\* C7: a read never observes a partial update: whenever the process can
\* serve a read, the pairing payload /qr returns is whole, its image being
\* the image of its raw text.
C7_NoTornRead ==
  Running =>
    (QrResponse("json").status = "qr_ready"
       => QrResponse("json").qrCode = ToDataURL(QrResponse("json").qrCodeRaw))

\* the step ends a sendMessage call that returned
SendSucceeded == op'.name \in {"SendDone", "ItemDone"} /\ op'.response.success

\* C8: messagesSent is the number of sendMessage calls that completed
\* successfully: a step adds exactly 1 to it when it completes a successful
\* send and leaves it alone otherwise, whatever the step is.
C8_CountsSuccessfulSends ==
  /\ [](messagesSent = delivered)
  /\ [][messagesSent' = messagesSent + (IF SendSucceeded THEN 1 ELSE 0)]_vars

\* a batch has ended with one message sent and one failed, and the
\* connection has been lost since: the counter is 1
C8_Witness ==
  /\ op.name = "BatchDone" /\ op.response.sent = 1 /\ op.response.failed = 1
  /\ connectionStatus = "disconnected"
  /\ messagesSent = 1

\* the step calls sendMessage: it starts the lookup or is rejected by the guard
SendInvoked == op'.name = "Lookup" \/ (op'.name \in {"SendDone", "ItemDone"} /\ op'.rejected)

\* C9: sendMessage called while phase is not Connected fails at once: no
\* lookup or send is started on the session client, nothing is queued and no
\* state changes.
C9_NotConnectedFailsFast ==
  [][(SendInvoked /\ connectionStatus # "connected")
       => /\ op'.name # "Lookup"
          /\ ~op'.response.success
          /\ \A t \in reqs' : t.pc \in {"lookup", "send"} => t \in reqs
          /\ UNCHANGED <<session, messagesSent, delivered, authDir, clients, tasks>>]_vars

\* a /send has been rejected while a session client exists and is connecting
C9_Witness ==
  /\ op.name = "SendDone" /\ op.rejected
  /\ sock # Null /\ connectionStatus = "connecting"
  /\ reqs = {}

\* the response of a batch has one result per item, the i-th for the phone of
\* the i-th item, and its counts add up
BatchResponseInOrder ==
  op.name = "BatchDone"
    => LET N == Len(op.input)
           r == op.response
       IN /\ N \in 1..BatchLimit
          /\ Len(r.results) = N
          /\ \A k \in 1..N : r.results[k].phone = op.input[k]
          /\ r.total = N
          /\ r.sent + r.failed = N
          /\ r.sent = Cardinality({k \in 1..N : r.results[k].success})

\* C10: a batch of N items (1 <= N <= 50) returns N results, the i-th for
\* the i-th item, with sent + failed = N, whatever its items are and whatever
\* happens meanwhile: its response is in order, and no batch that passed the
\* checks of /send-batch ends without its results.
C10_BatchResultsInOrder ==
  /\ BatchResponseInOrder
  /\ op.name # "BatchThrown"

\* C11: when the credential store fails to load during connect(), the error
\* is caught: the process lives on, lastError holds the error message, phase
\* is Disconnected and the attempt constructs no session client.
C11_LoadFailureCaught ==
  [][(op'.name = "ConnectResume" /\ ~op'.ok)
       => /\ connectionStatus' = "disconnected"
          /\ lastError' = ConnectError
          /\ UNCHANGED <<clients, sock, crashed>>]_vars

\* a load has failed during the first connect(): Disconnected, the error
\* recorded, no client
C11_Witness ==
  /\ op.name = "ConnectResume" /\ ~op.ok
  /\ connectionStatus = "disconnected" /\ lastError = ConnectError
  /\ Len(clients) = 0 /\ ~crashed

\* C12 as stated: whenever the digits of the input do not start with 55, the
\* result is 55 followed by the number (the digits without their leading 0);
\* and normalizing the result, or the address, gives the same number.
C12_PrefixWhenDigitsLack55 ==
  op.name = "Normalize"
    => /\ ~StartsWith55(StripNonDigits(op.phone))
            => op.number = <<5, 5>> \o DropLeadingZero(StripNonDigits(op.phone))
       /\ NormalizeNumber(op.number) = op.number
       /\ NormalizeNumber(op.jid) = op.number

\* C12, amended: whenever the digits of the input, after one leading 0 is
\* dropped, do not start with 55, the result is 55 followed by them, and
\* otherwise the result is them as they are: the result always starts with 55,
\* prepended at most once; and normalizing the result, or the address, gives
\* the same number.
C12_PrefixOnceAfterZeroDrop ==
  op.name = "Normalize"
    => LET d == DropLeadingZero(StripNonDigits(op.phone))
       IN /\ ~StartsWith55(d) => op.number = <<5, 5>> \o d
          /\ StartsWith55(d) => op.number = d
          /\ StartsWith55(op.number)
          /\ NormalizeNumber(op.number) = op.number
          /\ NormalizeNumber(op.jid) = op.number

\* a phone written with a separator and a leading 0, without 55, has been
\* normalized: the separator and the 0 are gone, 55 is in front
C12_Witness ==
  /\ op.name = "Normalize"
  /\ op.phone = <<10, 0, 1, 5>>
  /\ op.number = <<5, 5, 1, 5>>

\* the transitions of the state machine, with their triggers
PhaseTransition ==
  \/ /\ connectionStatus = "disconnected" /\ connectionStatus' = "connecting"
     /\ ConnectCalled
  \/ /\ connectionStatus = "connecting" /\ connectionStatus' = "connected"
     /\ op'.name = "ConnectionUpdate" /\ op'.connection = "open"
  \/ /\ connectionStatus \in {"connecting", "connected"}
     /\ connectionStatus' = "disconnected"
     /\ \/ op'.name = "ConnectionUpdate" /\ op'.connection = "close"
        \/ op'.name = "PostDisconnect" /\ op'.done
        \/ op'.name = "ConnectResume" /\ ~op'.ok

\* C13: every change of phase, in a process that lives on, is a transition
\* of the state machine: Disconnected -> Connecting by connect(), Connecting
\* -> Connected by an open event, Connecting or Connected -> Disconnected by
\* a close event, disconnect() or a failed connect().
C13_PhaseFollowsStateMachine ==
  [][(connectionStatus' # connectionStatus /\ ~crashed') => PhaseTransition]_vars

\* C14: the effects of the events of a client are applied in the order of
\* their emission: when the close event of a client has been handled, every
\* earlier event of that client has been handled to its end, so no handler
\* of one of its QR events is still waiting to store the image.
C14_EventEffectsInOrder ==
  ~crashed => \A t \in BagToSet(qrTasks) : clients[t.client].state # "closed"

\* a close event with reason restart-required or another transient reason
ReconnectingClose(o) ==
  /\ o.name = "ConnectionUpdate" /\ o.connection = "close"
  /\ o.statusCode \notin {loggedOut, connectionClosed}

\* C15: handling a close event with reason restart-required or another
\* transient reason sets phase Disconnected and schedules one connect(),
\* and sets lastError with the code in the transient case only; and then,
\* the timer firing, phase is eventually Connecting again in a process that
\* lives on.
C15_CloseSchedulesReconnect ==
  /\ [][ReconnectingClose(op')
          => /\ connectionStatus' = "disconnected"
             /\ timers' = timers + 1
             /\ lastError' = IF op'.statusCode = restartRequired THEN lastError
                             ELSE DisconnectedError(op'.statusCode)]_vars
  /\ (ReconnectingClose(op) ~> (connectionStatus = "connecting" \/ crashed))

\* the timer of the close of the only client has fired in Disconnected:
\* Connecting again, a new attempt under way
C15_Witness ==
  /\ op.name = "TimerFire" /\ op.from = "disconnected"
  /\ connectionStatus = "connecting" /\ connTasks = 1
  /\ Len(clients) = 1 /\ clients[1].state = "closed"
  /\ timers = 0

\* C16: disconnect() does not suppress a pending reconnect timer: no step
\* of /disconnect changes the pending timers, and a timer that fires in
\* Disconnected starts a connection attempt, phase becoming Connecting.
C16_DisconnectKeepsTimer ==
  /\ [][op'.name = "PostDisconnect" => timers' = timers]_vars
  /\ [][(op'.name = "TimerFire" /\ connectionStatus = "disconnected")
          => (connectionStatus' = "connecting" /\ connTasks' = connTasks + 1)]_vars

\* the timer of a close event has fired right after disconnect() completed
\* (Disconnected, credential store purged, sock null): Connecting again, a
\* new attempt under way without any connect command
C16_Witness ==
  /\ op.name = "TimerFire" /\ op.afterDisconnect /\ op.from = "disconnected"
  /\ connectionStatus = "connecting" /\ connTasks = 1
  /\ sock = Null /\ authDir = RmSync

\* an operation is in flight: connect() suspended at the load of the
\* credentials, or a sendMessage suspended at its lookup or its send
InFlight == connTasks > 0 \/ \E t \in reqs : t.pc \in {"lookup", "send"}

\* the step is the call of /connect or of /disconnect
CommandIssued ==
  \/ op'.name = "PostConnect"
  \/ op'.name = "PostDisconnect" /\ dcTasks' >= dcTasks

\* C17: a command issued while a send or a connection attempt is in flight
\* does not change the session client reference or the phase before that
\* operation has run to completion.
C17_InFlightRunsToCompletion ==
  [][(InFlight /\ CommandIssued) => UNCHANGED <<sock, connectionStatus>>]_vars

\* the /send-batch handlers in flight
Batches == {t \in reqs : t.kind = "batch"}

\* C18: a batch processes its items one after the other with a pacing
\* delay after each: item i is looked up or sent only when the outcomes of
\* the i-1 items before it are recorded, every outcome, failed or sent, is
\* followed by the delay, the next item starts only out of the delay of the
\* item before, and the response is produced only out of the delay of the
\* last item.
C18_BatchPacing ==
  /\ [](\A t \in Batches :
          /\ t.pc \in {"lookup", "send", "delay"}
          /\ t.i \in 1..Len(t.msgs)
          /\ Len(t.results) = IF t.pc = "delay" THEN t.i ELSE t.i - 1)
  /\ [][op'.name = "ItemDone"
          => \E u \in reqs' \ reqs :
               /\ u.kind = "batch" /\ u.pc = "delay"
               /\ u.results[u.i] = op'.response]_vars
  /\ [][\A u \in reqs' \ reqs :
          (u.kind = "batch" /\ u.i > 1 /\ \A t \in reqs : t.id = u.id => t.i < u.i)
            => \E t \in reqs : t.id = u.id /\ t.i = u.i - 1 /\ t.pc = "delay"]_vars
  /\ [][op'.name = "BatchDone"
          => \E t \in reqs \ reqs' :
               /\ t.kind = "batch" /\ t.pc = "delay" /\ t.i = Len(t.msgs)
               /\ t.msgs = op'.input /\ t.results = op'.response.results]_vars

\* a batch of two is at the lookup of its second item, its first item
\* having failed and the delay after it having elapsed
C18_Witness ==
  \E t \in Batches :
    /\ Len(t.msgs) = 2 /\ t.i = 2 /\ t.pc = "lookup"
    /\ Len(t.results) = 1 /\ ~t.results[1].success

\* C19: at most one session client is live at any time: connect()
\* constructs a session client only when every client constructed before has
\* emitted its close event.
C19_SingleLiveClient ==
  [][(op'.name = "ConnectResume" /\ op'.ok) => Alive = {}]_vars

\* C20: the handler of an open event completes with phase Connected and
\* connectedIdentity set to the identity of the client that emitted the
\* event, whatever the global sock refers to by then.
C20_OpenRecordsEmitterIdentity ==
  [][(op'.name = "ConnectionUpdate" /\ op'.connection = "open")
       => /\ ~crashed'
          /\ connectionStatus' = "connected"
          /\ connectedPhone' # Null
          /\ connectedPhone' = PhoneOf(clients[op'.client].user)]_vars
====
